---- MODULE Spec2Model ----
(***************************************************************************)
(* Model of package env (src/env.go, src/provider.go): loading the values  *)
(* of a key/value Provider into the tagged fields of a nested struct.      *)
(*                                                                         *)
(* Go strings are sequences of one-character strings, so that prefixing,   *)
(* strings.Split and os.Expand are computed character by character.        *)
(***************************************************************************)
EXTENDS Integers, Sequences, FiniteSets, TLC

VARIABLES
    dst,        \* the argument of Load/LoadFrom: its type (fields, tags)
    provider,   \* the Provider given to LoadFrom
    opts,       \* the Option list given to LoadFrom
    fieldVal,   \* the destination's storage: field path -> current value
    pc,         \* position of the call: "start", "loop", "expand", "done";
                \*   "idle" when no call is under way
    vars,       \* loadVars: the variables parseVars returned
    idx,        \* loadVars: position of the range loop over vars (1-based)
    notset,     \* loadVars: names of the missing required variables
    err,        \* the error the call returned (Nil when it returned nil)
    ex,         \* os.Expand in progress: its locals s, j, i, buf
    lookups,    \* history: every key handed to provider.LookupEnv, in order,
                \*   with the variable it was for and the function that asked
    binds,      \* history: every call of setValue/setSlice: the variable, the
                \*   value found for it, the text handed over, the error
    mpList,     \* MultiProvider: the providers it was built from
    mpAsked,    \* MultiProvider: the key of the last LookupEnv call
    mpResult    \* MultiProvider: what that call returned, and whom it asked

vars_loader == <<dst, provider, opts, fieldVal, pc, vars, idx, notset, err,
                 ex, lookups, binds>>
vars_multi == <<mpList, mpAsked, mpResult>>
allvars == <<vars_loader, vars_multi>>

----------------------------------------------------------------------------
(* Bounds of the checked instances. *)

\* most fields of a generated flat struct
MaxFields == 3
\* most leaf fields of a generated nested struct
MaxLeaves == 2
\* deepest nesting of a generated nested struct
MaxDepth == 2
\* most tokens per generated value that is expanded
MaxTokens == 2
\* most providers given to MultiProvider
MaxProviders == 3

----------------------------------------------------------------------------
(* Characters. *)

Digits == {"0", "1", "2", "3", "4", "5", "6", "7", "8", "9"}
Lower == {"a", "b", "c", "d", "e", "f", "g", "h", "i", "j", "k", "l", "m",
          "n", "o", "p", "q", "r", "s", "t", "u", "v", "w", "x", "y", "z"}
Upper == {"A", "B", "C", "D", "E", "F", "G", "H", "I", "J", "K", "L", "M",
          "N", "O", "P", "Q", "R", "S", "T", "U", "V", "W", "X", "Y", "Z"}

\* strings.Index(s, sep) for a non-empty sep, 1-based; 0 when sep does not occur
Index(s, sep) ==
    LET hits == {k \in 1..(Len(s) - Len(sep) + 1) :
                    SubSeq(s, k, k + Len(sep) - 1) = sep}
    IN  IF hits = {} THEN 0 ELSE CHOOSE k \in hits : \A h \in hits : k <= h

\* strings.Split(s, sep): the substrings between the occurrences of sep;
\* an empty sep splits after each character
RECURSIVE Split(_, _)
Split(s, sep) ==
    IF sep = <<>>
    THEN [k \in 1..Len(s) |-> <<s[k]>>]
    ELSE LET m == Index(s, sep)
         IN  IF m = 0
             THEN <<s>>
             ELSE <<SubSeq(s, 1, m - 1)>>
                      \o Split(SubSeq(s, m + Len(sep), Len(s)), sep)

----------------------------------------------------------------------------
(* Errors. *)

Nil == [kind |-> "nil"]
ErrInvalidArgument == [kind |-> "ErrInvalidArgument"]
ErrEmptyTagName == [kind |-> "ErrEmptyTagName"]
ErrUnsupportedType == [kind |-> "ErrUnsupportedType"]
\* fmt.Errorf("%w %q", ErrInvalidTagOption, option)
ErrInvalidTagOption(option) == [kind |-> "ErrInvalidTagOption", option |-> option]
NotSetError(names) == [kind |-> "NotSetError", Names |-> names]
\* the error of strconv for a text that is no number
ErrSyntax == [kind |-> "strconv.ErrSyntax"]

----------------------------------------------------------------------------
(* Providers. *)

\* Map{...} as a Provider
Map(m) == [kind |-> "Map", m |-> m]
\* MultiProvider(ps...)
MultiProvider(ps) == [kind |-> "providers", ps |-> ps]

\* Map.LookupEnv
MapLookupEnv(m, key) ==
    IF key \in DOMAIN m
    THEN [value |-> m[key], ok |-> TRUE, asked |-> <<>>]
    ELSE [value |-> <<>>, ok |-> FALSE, asked |-> <<>>]

RECURSIVE LookupEnv(_, _)
RECURSIVE providersRange(_, _, _, _, _, _)
RECURSIVE providersRangeFirstHit(_, _, _, _, _, _)
\* providersRange stopping at the first provider that has the key
providersRangeFirstHit(ps, key, i, value, found, asked) ==
    IF i > Len(ps) \/ found
    THEN [value |-> value, ok |-> found, asked |-> asked]
    ELSE LET r == LookupEnv(ps[i], key)
         IN  providersRangeFirstHit(ps, key, i + 1, r.value, r.ok, Append(asked, i))

\* the range loop of providers.LookupEnv from the i-th provider on; asked
\* records the positions of the providers whose LookupEnv was called
providersRange(ps, key, i, value, found, asked) ==
    IF i > Len(ps)
    THEN [value |-> value, ok |-> found, asked |-> asked]
    ELSE LET r == LookupEnv(ps[i], key)
         IN  IF r.ok
             THEN providersRange(ps, key, i + 1, r.value, TRUE, Append(asked, i))
             ELSE providersRange(ps, key, i + 1, value, found, Append(asked, i))

\* providers.LookupEnv
providersLookupEnv(ps, key) == providersRange(ps, key, 1, <<>>, FALSE, <<>>)

\* Provider.LookupEnv, dispatched on the dynamic type
LookupEnv(p, key) ==
    IF p.kind = "Map"
    THEN MapLookupEnv(p.m, key)
    ELSE providersLookupEnv(p.ps, key)

----------------------------------------------------------------------------
(* Options and the loader. *)

WithPrefix(prefix) == [opt |-> "prefix", arg |-> prefix]
WithSliceSeparator(sep) == [opt |-> "sliceSep", arg |-> sep]

\* opt(&l)
ApplyOption(l, o) ==
    IF o.opt = "prefix"
    THEN [l EXCEPT !.prefix = o.arg]
    ELSE [l EXCEPT !.sliceSep = o.arg]

RECURSIVE ApplyOptions(_, _, _)
ApplyOptions(l, os, i) ==
    IF i > Len(os) THEN l ELSE ApplyOptions(ApplyOption(l, os[i]), os, i + 1)

newLoader(p, os) ==
    ApplyOptions([provider |-> p, prefix |-> <<>>, sliceSep |-> <<" ">>], os, 1)

----------------------------------------------------------------------------
(* The destination: struct types as sequences of fields.  A field is        *)
(* addressed by its path, the sequence of field indices leading to it.      *)

\* a struct field: exported or not, its kind (and element kind for a slice),
\* whether its type implements encoding.TextUnmarshaler, its `env` tag if
\* any, and its own fields when it is a struct
Field(exported, kind, elem, unmarshaler, hasTag, tag, fields) ==
    [exported |-> exported, kind |-> kind, elem |-> elem,
     unmarshaler |-> unmarshaler, hasTag |-> hasTag, tag |-> tag,
     fields |-> fields]

\* CanSet taking unexported fields too
CanSetAlways(field) == TRUE

\* reflect.Value.CanSet of a field reached from an addressable struct
CanSet(field) == field.exported
kindOf(field, kind) == field.kind = kind
implements(field) == field.unmarshaler

required == <<"r", "e", "q", "u", "i", "r", "e", "d">>
expand == <<"e", "x", "p", "a", "n", "d">>

\* parseOptions passing over the options it does not know
RECURSIVE parseOptionsLenient(_, _, _, _)
parseOptionsLenient(options, k, req, exp) ==
    IF k > Len(options)
    THEN [required |-> req, expand |-> exp, err |-> Nil]
    ELSE parseOptionsLenient(options, k + 1,
                             req \/ options[k] = required,
                             exp \/ options[k] = expand)

\* the switch over the tag's options
RECURSIVE parseOptions(_, _, _, _)
parseOptions(options, k, req, exp) ==
    IF k > Len(options)
    THEN [required |-> req, expand |-> exp, err |-> Nil]
    ELSE IF options[k] = required
         THEN parseOptions(options, k + 1, TRUE, exp)
         ELSE IF options[k] = expand
              THEN parseOptions(options, k + 1, req, TRUE)
              ELSE [required |-> req, expand |-> exp,
                    err |-> ErrInvalidTagOption(options[k])]

\* ResolvedName without the prefix
ResolvedNameNoPrefix(prefix, name) == name

\* the name of a variable: l.prefix + name
ResolvedName(prefix, name) == prefix \o name

\* loader.parseVars over the fields of v from the i-th on, v being the struct
\* at path, with the variables collected so far
RECURSIVE parseVarsFrom(_, _, _, _, _)
parseVarsFrom(l, v, path, i, acc) ==
    IF i > Len(v)
    THEN [vars |-> acc, err |-> Nil]
    ELSE
        LET field == v[i]
        IN  IF ~CanSet(field)
            THEN parseVarsFrom(l, v, path, i + 1, acc)
            ELSE IF kindOf(field, "struct") /\ ~implements(field)
            THEN LET nested == parseVarsFrom(l, field.fields, Append(path, i), 1, <<>>)
                 IN  IF nested.err # Nil
                     THEN [vars |-> <<>>, err |-> nested.err]
                     ELSE parseVarsFrom(l, v, path, i + 1, acc \o nested.vars)
            ELSE IF ~field.hasTag
            THEN parseVarsFrom(l, v, path, i + 1, acc)
            ELSE
                LET parts == Split(field.tag, <<",">>)
                    name == parts[1]
                    options == Tail(parts)
                    o == parseOptions(options, 1, FALSE, FALSE)
                IN  IF name = <<>>
                    THEN [vars |-> <<>>, err |-> ErrEmptyTagName]
                    ELSE IF o.err # Nil
                    THEN [vars |-> <<>>, err |-> o.err]
                    ELSE parseVarsFrom(l, v, path, i + 1,
                            Append(acc, [name |-> ResolvedName(l.prefix, name),
                                         required |-> o.required,
                                         expand |-> o.expand,
                                         field |-> Append(path, i)]))

parseVars(l, v) == parseVarsFrom(l, v, <<>>, 1, <<>>)

\* the field of struct type v at path
RECURSIVE FieldAt(_, _)
FieldAt(v, path) ==
    IF Len(path) = 1 THEN v[path[1]] ELSE FieldAt(v[path[1]].fields, Tail(path))

\* the paths of the fields of v that hold a value of their own: every field
\* but the plain structs, whose value is that of their fields
RECURSIVE Storage(_, _)
Storage(v, path) ==
    UNION {
        LET p == Append(path, i)
            own == IF v[i].kind = "struct" /\ ~v[i].unmarshaler THEN {} ELSE {p}
        IN  own \cup Storage(v[i].fields, p)
        : i \in 1..Len(v) }

----------------------------------------------------------------------------
(* Binding a text to a field: setValue and setSlice. *)

DigitValue(c) ==
    CASE c = "0" -> 0 [] c = "1" -> 1 [] c = "2" -> 2 [] c = "3" -> 3
      [] c = "4" -> 4 [] c = "5" -> 5 [] c = "6" -> 6 [] c = "7" -> 7
      [] c = "8" -> 8 [] c = "9" -> 9

RECURSIVE DecimalValue(_)
DecimalValue(ds) ==
    IF ds = <<>> THEN 0
    ELSE 10 * DecimalValue(SubSeq(ds, 1, Len(ds) - 1)) + DigitValue(ds[Len(ds)])

\* strconv.ParseInt(text, 10, 64): an optional sign and decimal digits
ParseInt(text) ==
    LET signed == text # <<>> /\ text[1] \in {"+", "-"}
        ds == IF signed THEN Tail(text) ELSE text
    IN  IF ds = <<>> \/ \E k \in 1..Len(ds) : ds[k] \notin Digits
        THEN [val |-> 0, err |-> ErrSyntax]
        ELSE [val |-> IF signed /\ text[1] = "-"
                      THEN 0 - DecimalValue(ds) ELSE DecimalValue(ds),
              err |-> Nil]

\* the conversion of one text to a value of the given kind
setScalar(kind, text) ==
    IF kind = "string" THEN [val |-> text, err |-> Nil]
    ELSE IF kind = "int" THEN ParseInt(text)
    ELSE [val |-> 0, err |-> ErrUnsupportedType]

\* setValue(field, value): a TextUnmarshaler takes the text as it is
setValue(field, value) ==
    IF implements(field)
    THEN [val |-> [text |-> value], err |-> Nil]
    ELSE setScalar(field.kind, value)

\* setSlice(field, values): every piece converted, the first failure returned,
\* the field written only when all pieces converted
RECURSIVE setSliceFrom(_, _, _, _)
setSliceFrom(field, values, k, slice) ==
    IF k > Len(values)
    THEN [val |-> slice, err |-> Nil]
    ELSE LET e == setScalar(field.elem, values[k])
         IN  IF e.err # Nil
             THEN [val |-> <<>>, err |-> e.err]
             ELSE setSliceFrom(field, values, k + 1, Append(slice, e.val))

setSlice(field, values) == setSliceFrom(field, values, 1, <<>>)

\* the value a field holds before the call (a default set by the caller)
DefaultOf(field) ==
    IF field.unmarshaler THEN [text |-> <<"d">>]
    ELSE IF field.kind = "string" THEN <<"d">>
    ELSE IF field.kind = "int" THEN 7
    ELSE IF field.kind = "slice"
         THEN IF field.elem = "int" THEN <<7>> ELSE << <<"d">> >>
    ELSE [chan |-> "c"]

Defaults(v) == [p \in Storage(v, <<>>) |-> DefaultOf(FieldAt(v, p))]

----------------------------------------------------------------------------
(* os.Expand, one iteration of its loop at a time. *)

isShellSpecialVar(c) == c \in {"*", "#", "$", "@", "!", "?", "-"} \cup Digits
isAlphaNum(c) == c = "_" \/ c \in Digits \/ c \in Lower \/ c \in Upper

\* getShellName(s) for a non-empty s: the name that starts s and the number of
\* characters it takes
getShellName(s) ==
    IF s[1] = "{"
    THEN IF Len(s) > 2 /\ isShellSpecialVar(s[2]) /\ s[3] = "}"
         THEN [name |-> <<s[2]>>, w |-> 3]
         ELSE LET closes == {k \in 2..Len(s) : s[k] = "}"}
                  k == CHOOSE c \in closes : \A d \in closes : c <= d
              IN  IF closes = {} THEN [name |-> <<>>, w |-> 1]
                  ELSE IF k = 2 THEN [name |-> <<>>, w |-> 2]
                  ELSE [name |-> SubSeq(s, 2, k - 1), w |-> k]
    ELSE IF isShellSpecialVar(s[1])
    THEN [name |-> <<s[1]>>, w |-> 1]
    ELSE LET stops == {k \in 1..Len(s) : ~isAlphaNum(s[k])}
             n == IF stops = {} THEN Len(s)
                  ELSE (CHOOSE c \in stops : \A d \in stops : c <= d) - 1
         IN  [name |-> SubSeq(s, 1, n), w |-> n]

\* mapping leaving the placeholder of a key the provider does not have
mappingKeepsUnset(l, key) ==
    LET r == LookupEnv(l.provider, key)
    IN  [value |-> IF r.ok THEN r.value ELSE <<"$">> \o key, asked |-> key]

\* mapping looking up prefix + key
mappingPrefixed(l, key) ==
    LET r == LookupEnv(l.provider, l.prefix \o key)
    IN  [value |-> r.value, asked |-> l.prefix \o key]

\* the mapping lookupEnv gives to os.Expand: the provider's value of key, the
\* empty string when it has none; asked is the key handed to the provider
mapping(l, key) ==
    LET r == LookupEnv(l.provider, key)
    IN  [value |-> r.value, asked |-> key]

\* the locals of os.Expand as it starts on s
ExpandStart(s) == [s |-> s, j |-> 0, i |-> 0, buf |-> <<>>, bufNil |-> TRUE]
NoExpand == ExpandStart(<<>>)

\* one iteration of the loop of os.Expand (j and i count from 0, as in Go);
\* asked lists the key it handed to mapping, if any
ExpandIter(l, e) ==
    IF e.s[e.j + 1] = "$" /\ e.j + 1 < Len(e.s)
    THEN LET g == getShellName(SubSeq(e.s, e.j + 2, Len(e.s)))
             copied == e.buf \o SubSeq(e.s, e.i + 1, e.j)
             m == mapping(l, g.name)
         IN  [ex |-> [s |-> e.s,
                      j |-> e.j + g.w + 1,
                      i |-> e.j + g.w + 1,
                      buf |-> IF g.name = <<>> /\ g.w > 0 THEN copied
                              ELSE IF g.name = <<>> THEN Append(copied, "$")
                              ELSE copied \o m.value,
                      bufNil |-> FALSE],
              asked |-> IF g.name = <<>> THEN <<>> ELSE <<m.asked>>]
    ELSE [ex |-> [e EXCEPT !.j = e.j + 1], asked |-> <<>>]

\* what os.Expand returns when its loop has ended
ExpandReturn(e) ==
    IF e.bufNil THEN e.s ELSE e.buf \o SubSeq(e.s, e.i + 1, Len(e.s))

----------------------------------------------------------------------------
(* loadVars, step by step. *)

\* the loader of the call
L == newLoader(provider, opts)

\* structPtr(rv): dst is a non-nil pointer to a struct
structPtr(d) == d.arg = "*struct"

\* lookupEnvHead dropping the provider's ok
lookupEnvHeadIgnoresOk(l, key) ==
    LET r == LookupEnv(l.provider, key)
    IN  [value |-> r.value, ok |-> TRUE, asked |-> key]

\* the head of lookupEnv: the provider's answer for key, ("", false) when it
\* has none; asked is the key handed to the provider
lookupEnvHead(l, key) ==
    LET r == LookupEnv(l.provider, key)
    IN  IF ~r.ok
        THEN [value |-> <<>>, ok |-> FALSE, asked |-> key]
        ELSE [value |-> r.value, ok |-> TRUE, asked |-> key]

\* onNotFound taking every missing variable for a required one
onNotFoundAny(missing, v, i) ==
    [notset |-> Append(missing, v.name), pc |-> "loop", idx |-> i + 1,
     err |-> Nil]

\* onNotFound returning NotSetError at the first missing required variable
onNotFoundStop(missing, v, i) ==
    IF v.required
    THEN [notset |-> Append(missing, v.name), pc |-> "done", idx |-> i,
          err |-> NotSetError(Append(missing, v.name))]
    ELSE [notset |-> missing, pc |-> "loop", idx |-> i + 1, err |-> Nil]

\* the branch of the loop for a variable that is not found
onNotFound(missing, v, i) ==
    [notset |-> IF v.required THEN Append(missing, v.name) ELSE missing,
     pc |-> "loop", idx |-> i + 1, err |-> Nil]

\* the choice between setSlice and setValue
bindVar(l, field, value) ==
    IF kindOf(field, "slice") /\ ~implements(field)
    THEN setSlice(field, Split(value, l.sliceSep))
    ELSE setValue(field, value)

\* the storage after a call of setValue/setSlice: written when it succeeded
store(fv, path, res) ==
    IF res.err = Nil THEN [fv EXCEPT ![path] = res.val] ELSE fv

\* afterBind going on after a failed bind
afterBindContinue(e, i) == [pc |-> "loop", idx |-> i + 1, err |-> e]

\* after the bind: return its error, or go on with the next variable
afterBind(e, i) ==
    IF e # Nil
    THEN [pc |-> "done", idx |-> i, err |-> e]
    ELSE [pc |-> "loop", idx |-> i + 1, err |-> Nil]

\* the end of loadVars
loadVarsResult(missing) ==
    IF Len(missing) > 0 THEN NotSetError(missing) ELSE Nil

\* an entry of the history of lookups
Asked(key, by) == [key |-> key, var |-> idx, by |-> by]

\* the rest of an iteration once the value of vars[idx] is known: found is
\* what the provider had, value what is bound
Bind(found, value) ==
    LET v == vars[idx]
        res == bindVar(L, FieldAt(dst.fields, v.field), value)
        nxt == afterBind(res.err, idx)
    IN  /\ binds' = Append(binds, [var |-> idx, field |-> v.field,
                                    found |-> found, text |-> value,
                                    err |-> res.err])
        /\ fieldVal' = store(fieldVal, v.field, res)
        /\ pc' = nxt.pc
        /\ idx' = nxt.idx
        /\ err' = nxt.err

\* loadVars refuses a dst that is no struct pointer
InvalidArgument ==
    /\ pc = "start"
    /\ ~structPtr(dst)
    /\ pc' = "done"
    /\ err' = ErrInvalidArgument
    /\ UNCHANGED <<dst, provider, opts, fieldVal, vars, idx, notset, ex,
                   lookups, binds, vars_multi>>

\* parseVars failed: loadVars returns its error
DiscoverFails ==
    /\ pc = "start"
    /\ structPtr(dst)
    /\ LET r == parseVars(L, dst.fields)
       IN  /\ r.err # Nil
           /\ err' = r.err
    /\ pc' = "done"
    /\ UNCHANGED <<dst, provider, opts, fieldVal, vars, idx, notset, ex,
                   lookups, binds, vars_multi>>

\* parseVars succeeded: the loop over its variables starts
Discover ==
    /\ pc = "start"
    /\ structPtr(dst)
    /\ LET r == parseVars(L, dst.fields)
       IN  /\ r.err = Nil
           /\ vars' = r.vars
    /\ pc' = "loop"
    /\ idx' = 1
    /\ UNCHANGED <<dst, provider, opts, fieldVal, notset, err, ex, lookups,
                   binds, vars_multi>>

\* an iteration for a variable the provider does not have
LookupNotFound ==
    /\ pc = "loop"
    /\ idx <= Len(vars)
    /\ LET r == lookupEnvHead(L, vars[idx].name)
           nxt == onNotFound(notset, vars[idx], idx)
       IN  /\ ~r.ok
           /\ lookups' = Append(lookups, Asked(r.asked, "lookupEnv"))
           /\ notset' = nxt.notset
           /\ pc' = nxt.pc
           /\ idx' = nxt.idx
           /\ err' = nxt.err
    /\ UNCHANGED <<dst, provider, opts, fieldVal, vars, ex, binds, vars_multi>>

\* an iteration for a variable that is found and not expanded
LookupBind ==
    /\ pc = "loop"
    /\ idx <= Len(vars)
    /\ LET r == lookupEnvHead(L, vars[idx].name)
       IN  /\ r.ok
           /\ ~vars[idx].expand
           /\ lookups' = Append(lookups, Asked(r.asked, "lookupEnv"))
           /\ Bind(r.value, r.value)
    /\ UNCHANGED <<dst, provider, opts, vars, notset, ex, vars_multi>>

\* an iteration for a variable that is found and expanded: os.Expand starts
LookupExpand ==
    /\ pc = "loop"
    /\ idx <= Len(vars)
    /\ LET r == lookupEnvHead(L, vars[idx].name)
       IN  /\ r.ok
           /\ vars[idx].expand
           /\ lookups' = Append(lookups, Asked(r.asked, "lookupEnv"))
           /\ ex' = ExpandStart(r.value)
    /\ pc' = "expand"
    /\ UNCHANGED <<dst, provider, opts, fieldVal, vars, idx, notset, err,
                   binds, vars_multi>>

\* one iteration of the loop of os.Expand
ExpandStep ==
    /\ pc = "expand"
    /\ ex.j < Len(ex.s)
    /\ LET it == ExpandIter(L, ex)
       IN  /\ ex' = it.ex
           /\ lookups' = lookups \o [n \in 1..Len(it.asked) |->
                                        Asked(it.asked[n], "mapping")]
    /\ UNCHANGED <<dst, provider, opts, fieldVal, pc, vars, idx, notset, err,
                   binds, vars_multi>>

\* os.Expand returns and the expanded value is bound
ExpandBind ==
    /\ pc = "expand"
    /\ ex.j >= Len(ex.s)
    /\ Bind(ex.s, ExpandReturn(ex))
    /\ ex' = NoExpand
    /\ UNCHANGED <<dst, provider, opts, vars, notset, lookups, vars_multi>>

\* the loop is over: NotSetError if a required variable was missing
Finish ==
    /\ pc = "loop"
    /\ idx > Len(vars)
    /\ pc' = "done"
    /\ err' = loadVarsResult(notset)
    /\ UNCHANGED <<dst, provider, opts, fieldVal, vars, idx, notset, ex,
                   lookups, binds, vars_multi>>

Next ==
    \/ InvalidArgument
    \/ DiscoverFails
    \/ Discover
    \/ LookupNotFound
    \/ LookupBind
    \/ LookupExpand
    \/ ExpandStep
    \/ ExpandBind
    \/ Finish

----------------------------------------------------------------------------
(* The calls that are checked: destinations, providers and options. *)

kA == <<"A">>
kB == <<"B">>
kC == <<"C">>
kP == <<"P">>

RECURSIVE Concat(_)
Concat(ss) == IF ss = <<>> THEN <<>> ELSE Head(ss) \o Concat(Tail(ss))

\* the tag `env:"name,option,..."`
Tag(name, options) ==
    name \o Concat([k \in 1..Len(options) |-> <<",">> \o options[k]])

\* an exported field of a scalar kind with a tag
Leaf(kind, name, options) ==
    Field(TRUE, kind, "none", FALSE, TRUE, Tag(name, options), <<>>)

\* fields of flat destinations
FlatPool ==
    { Leaf("string", kA, <<>>),
      Leaf("int", kA, <<required>>),
      Leaf("string", kB, <<required>>),
      Leaf("string", kB, <<expand>>),
      Leaf("int", kC, <<required, expand>>),
      Field(TRUE, "slice", "int", FALSE, TRUE, Tag(kB, <<>>), <<>>),
      Field(TRUE, "chan", "none", FALSE, TRUE, Tag(kC, <<>>), <<>>) }

\* all sequences of 1..n elements of S
SeqsUpTo(S, n) == UNION {[1..k -> S] : k \in 1..n}

\* fields of nested destinations: tagged fields, fields with a faulty tag,
\* and fields discovery must pass over
foo == <<"f", "o", "o">>
TreePool ==
    { Leaf("string", kA, <<required>>),
      Leaf("string", kB, <<expand>>),
      \* `env:",required"`: no name
      Leaf("string", <<>>, <<required>>),
      \* `env:"B,foo"`: no such option
      Leaf("string", kB, <<foo>>),
      \* an unexported struct holding a field with a faulty tag
      Field(FALSE, "struct", "none", FALSE, TRUE, Tag(kA, <<>>),
            <<Leaf("string", <<>>, <<>>)>>),
      \* a struct that is a TextUnmarshaler, holding a field with a faulty tag
      Field(TRUE, "struct", "none", TRUE, TRUE, Tag(kB, <<>>),
            <<Leaf("string", kC, <<foo>>)>>),
      \* no tag
      Field(TRUE, "int", "none", FALSE, FALSE, <<>>, <<>>) }

\* a nested struct field; its own tag is faulty
Nested(fields) == Field(TRUE, "struct", "none", FALSE, TRUE, <<>>, fields)

\* the struct whose k-th leaf, in declaration order, is leaves[k] at nesting
\* depth depths[k]: neighbouring leaves below the top level share a struct
RECURSIVE Build(_, _)
Build(leaves, depths) ==
    IF leaves = <<>> THEN <<>>
    ELSE IF depths[1] = 0
    THEN <<leaves[1]>> \o Build(Tail(leaves), Tail(depths))
    ELSE LET shallow == {k \in 1..Len(depths) : depths[k] = 0}
             n == IF shallow = {} THEN Len(depths)
                  ELSE (CHOOSE c \in shallow : \A d \in shallow : c <= d) - 1
         IN  <<Nested(Build(SubSeq(leaves, 1, n),
                            [k \in 1..n |-> depths[k] - 1]))>>
                 \o Build(SubSeq(leaves, n + 1, Len(leaves)),
                          SubSeq(depths, n + 1, Len(depths)))

\* providers of the flat destinations
NoSource == Map(<<>>)
NumbersSource ==
      Map(kA :> <<"8", "0">> @@ kB :> <<"1", " ", "2">>
            @@ (kP \o kA) :> <<"-", "1">> @@ (kP \o kB) :> <<"3", ";", "$", "A">>)
TextsSource ==
      Map(kA :> <<"x">> @@ kB :> <<"$", "A", "$", "{", "C", "}">>
            @@ kC :> <<"4">> @@ (kP \o kB) :> <<"y">>
            @@ (kP \o kC) :> <<"$", "P", "B">>)
MergedSource ==
      MultiProvider(<<Map(kA :> <<"1">> @@ (kP \o kA) :> <<"z">>),
                      Map(kA :> <<"8", "0">> @@ kC :> <<"$", "A">>)>>)

\* the providers and options the flat destinations are loaded with
FlatSettings ==
    LET with(p, o) == [provider |-> p, opts |-> o]
        prefixed == <<WithPrefix(kP)>>
        separated == <<WithPrefix(<<"Q">>), WithSliceSeparator(<<";">>),
                       WithPrefix(kP)>>
    IN  { with(NoSource, <<>>),
          with(NumbersSource, <<>>),
          with(NumbersSource, prefixed),
          with(NumbersSource, separated),
          with(TextsSource, <<>>),
          with(TextsSource, prefixed),
          with(MergedSource, <<>>),
          with(MergedSource, prefixed) }

\* the provider of the nested destinations
TreeProvider == Map(kA :> <<"x">> @@ kB :> <<"y">> @@ kC :> <<"z">>)

\* the pieces of a value that is expanded: literal text, $NAME and ${NAME}
Lit(text) == [tok |-> "lit", text |-> text]
Dollar(name) == [tok |-> "dollar", text |-> name]
Brace(name) == [tok |-> "brace", text |-> name]

TokenPool ==
    { Lit(<<":">>), Lit(<<"x">>), Dollar(kA), Dollar(kB), Brace(kB),
      Brace(kC), Dollar(kP \o kB) }

\* the text of a token
Render(t) ==
    IF t.tok = "lit" THEN t.text
    ELSE IF t.tok = "dollar" THEN <<"$">> \o t.text
    ELSE <<"$", "{">> \o t.text \o <<"}">>

RenderAll(ts) == Concat([k \in 1..Len(ts) |-> Render(ts[k])])

\* a $NAME directly followed by text that continues the name is another
\* placeholder: such token sequences are left out
WellFormed(ts) ==
    \A k \in 1..(Len(ts) - 1) :
        ~(ts[k].tok = "dollar" /\ ts[k + 1].tok = "lit"
            /\ isAlphaNum(ts[k + 1].text[1]))

Templates == {ts \in SeqsUpTo(TokenPool, MaxTokens) : WellFormed(ts)}

\* values os.Expand treats specially: a lone or trailing $, bad syntax, and
\* the shell's special names
OddValues ==
    { <<"$">>, <<"x", "$">>, <<"$", "{">>, <<"$", "{", "}", "x">>,
      <<"$", "$">>, <<"$", "{", "B">>, <<"$", "1">>, <<"$", "{", "1", "}">>,
      <<"$", ":">> }

\* the provider holding value under A and P+A; B and A refer to each other
ExpandProvider(value) ==
    Map(kA :> value @@ (kP \o kA) :> value @@ kB :> <<"$", "A">>
          @@ (kP \o kB) :> <<"b">> @@ <<"1">> :> <<"o">>)

ExpandDsts ==
    { <<Leaf("string", kA, <<expand>>)>>,
      <<Leaf("string", kB, <<>>), Leaf("string", kA, <<required, expand>>)>> }

\* hand-written nested destinations with more fields than the generated ones
DeepDsts ==
    { \* nested variables keep their place between the outer ones
      <<Leaf("string", kA, <<>>),
        Nested(<<Leaf("string", <<"D">>, <<required>>),
                 Nested(<<Leaf("int", kC, <<required, expand>>)>>),
                 Field(FALSE, "string", "none", FALSE, TRUE, <<>>, <<>>),
                 Leaf("string", kA, <<expand>>)>>),
        Leaf("string", kB, <<>>)>>,
      \* the same with a text C converts to; a TextUnmarshaler struct is a leaf
      <<Leaf("string", kA, <<>>),
        Nested(<<Leaf("string", <<"D">>, <<required>>),
                 Nested(<<Leaf("string", kC, <<required, expand>>)>>),
                 Field(FALSE, "string", "none", FALSE, TRUE, <<>>, <<>>),
                 Field(TRUE, "struct", "none", TRUE, TRUE, Tag(kA, <<expand>>),
                       <<Leaf("string", kC, <<foo>>)>>)>>),
        Leaf("string", kB, <<>>)>>,
      \* a faulty tag three structs down, after fields that are found
      <<Leaf("string", kA, <<>>),
        Leaf("string", kB, <<required>>),
        Nested(<<Nested(<<Leaf("string", kC, <<>>),
                          Nested(<<Leaf("string", kA, <<expand, <<>> >>)>>)>>)>>),
        Leaf("string", kC, <<>>)>>,
      \* an empty name after a missing option list, inside a nested struct
      <<Nested(<<Leaf("string", kA, <<required>>),
                 Leaf("string", <<>>, <<foo>>),
                 Leaf("string", kB, <<foo>>)>>)>> }

StructPtr(fields) == [arg |-> "*struct", fields |-> fields]

\* the state as LoadFrom(p, d, o...) is called
Called(d, p, o) ==
    /\ dst = d
    /\ provider = p
    /\ opts = o
    /\ fieldVal = Defaults(d.fields)
    /\ pc = "start"
    /\ vars = <<>>
    /\ idx = 0
    /\ notset = <<>>
    /\ err = Nil
    /\ ex = NoExpand
    /\ lookups = <<>>
    /\ binds = <<>>
    /\ mpList = <<>>
    /\ mpAsked = <<>>
    /\ mpResult = MapLookupEnv(<<>>, <<>>)

\* LoadFrom is called: with a flat destination, a nested one, one whose values
\* are expanded, or an argument that is no struct pointer
Init ==
    \/ \E n \in 1..MaxFields : \E d \in [1..n -> FlatPool] :
        \E c \in FlatSettings : Called(StructPtr(d), c.provider, c.opts)
    \/ \E n \in 1..MaxLeaves :
        \E ls \in [1..n -> TreePool], ds \in [1..n -> 0..MaxDepth] :
            Called(StructPtr(Build(ls, ds)), TreeProvider, <<>>)
    \/ \E d \in DeepDsts : Called(StructPtr(d), TreeProvider, <<>>)
    \/ \E n \in 1..MaxTokens : \E ts \in [1..n -> TokenPool] :
        /\ WellFormed(ts)
        /\ \E d \in ExpandDsts, o \in {<<>>, <<WithPrefix(kP)>>} :
            Called(StructPtr(d), ExpandProvider(RenderAll(ts)), o)
    \/ \E d \in ExpandDsts, value \in OddValues :
        Called(StructPtr(d), ExpandProvider(value), <<>>)
    \/ \E a \in {"nil", "struct", "*int"} :
        Called([arg |-> a, fields |-> <<>>], NoSource, <<>>)

Spec == Init /\ [][Next]_allvars

----------------------------------------------------------------------------
(* MultiProvider on its own: every list of providers, every key. *)

MultiKeys == {kA, kB, kC}

\* the providers a list is made of: maps with and without A and B, and a list
MultiPool ==
    { Map(a @@ b) : a \in {<<>>, kA :> <<"x">>, kA :> <<"y">>},
                    b \in {<<>>, kB :> <<"x">>} }
    \cup { MultiProvider(<<Map(kA :> <<"z">>), Map(<<>>)>>) }

\* MultiProvider(ps...) is built; no call of the loader is under way
InitMulti ==
    /\ \E n \in 0..MaxProviders : mpList \in [1..n -> MultiPool]
    /\ mpAsked = <<>>
    /\ mpResult = MapLookupEnv(<<>>, <<>>)
    /\ dst = [arg |-> "nil", fields |-> <<>>]
    /\ provider = Map(<<>>)
    /\ opts = <<>>
    /\ fieldVal = Defaults(<<>>)
    /\ pc = "idle"
    /\ vars = <<>>
    /\ idx = 0
    /\ notset = <<>>
    /\ err = Nil
    /\ ex = NoExpand
    /\ lookups = <<>>
    /\ binds = <<>>

\* MultiProvider(mpList...).LookupEnv(key)
MultiLookupEnv(key) ==
    /\ pc = "idle"
    /\ mpAsked' = key
    /\ mpResult' = LookupEnv(MultiProvider(mpList), key)
    /\ UNCHANGED <<mpList, vars_loader>>

NextMulti == \E key \in MultiKeys : MultiLookupEnv(key)

SpecMulti == InitMulti /\ [][NextMulti]_allvars

----------------------------------------------------------------------------
(* What the claims speak of, stated apart from the code above. *)

Least(S) == CHOOSE k \in S : \A h \in S : k <= h
Greatest(S) == CHOOSE k \in S : \A h \in S : h <= k

\* the provider's answer for a key
Found(key) == LookupEnv(provider, key).ok
ValueOf(key) == LookupEnv(provider, key).value

\* the prefix the call configures: that of its last WithPrefix, none otherwise
PrefixGiven ==
    LET at == {k \in 1..Len(opts) : opts[k].opt = "prefix"}
    IN  IF at = {} THEN <<>> ELSE opts[Greatest(at)].arg

\* a tag read by the positions of its commas
Commas(tag) == {k \in 1..Len(tag) : tag[k] = ","}
TagName(tag) ==
    IF Commas(tag) = {} THEN tag ELSE SubSeq(tag, 1, Least(Commas(tag)) - 1)
\* the option that starts after the comma at position c
OptionAt(tag, c) ==
    LET later == {k \in Commas(tag) : k > c}
    IN  SubSeq(tag, c + 1, IF later = {} THEN Len(tag) ELSE Least(later) - 1)
UnknownOptions(tag) ==
    {c \in Commas(tag) : OptionAt(tag, c) \notin {required, expand}}
TagFaulty(tag) == TagName(tag) = <<>> \/ UnknownOptions(tag) # {}
TagError(tag) ==
    IF TagName(tag) = <<>> THEN ErrEmptyTagName
    ELSE ErrInvalidTagOption(OptionAt(tag, Least(UnknownOptions(tag))))

\* the settable tagged leaf fields of struct v: reached through exported
\* structs that are no TextUnmarshaler, exported, tagged, and themselves no
\* such struct
RECURSIVE TaggedLeaves(_, _)
TaggedLeaves(v, path) ==
    UNION {
        LET p == Append(path, i)
        IN  IF ~v[i].exported THEN {}
            ELSE IF v[i].kind = "struct" /\ ~v[i].unmarshaler
                 THEN TaggedLeaves(v[i].fields, p)
                 ELSE IF v[i].hasTag THEN {p} ELSE {}
        : i \in 1..Len(v) }

\* p comes before q depth-first in declaration order
PathBefore(p, q) ==
    \E k \in 1..Len(p) :
        /\ k <= Len(q)
        /\ p[k] < q[k]
        /\ \A h \in 1..(k - 1) : p[h] = q[h]

RECURSIVE InOrder(_)
InOrder(S) ==
    IF S = {} THEN <<>>
    ELSE LET first == CHOOSE p \in S : \A q \in S \ {p} : PathBefore(p, q)
         IN  <<first>> \o InOrder(S \ {first})

Leaves == TaggedLeaves(dst.fields, <<>>)
Faulty == {p \in Leaves : TagFaulty(FieldAt(dst.fields, p).tag)}
Before == Defaults(dst.fields)

\* discovery has come to an end without an error
Discovered == structPtr(dst) /\ Faulty = {} /\ pc \in {"loop", "expand", "done"}
NoBindFailed == \A n \in 1..Len(binds) : binds[n].err = Nil

Names(vs) == [k \in 1..Len(vs) |-> vs[k].name]
MissingRequired == SelectSeq(vars, LAMBDA v : v.required /\ ~Found(v.name))

\* the binds of the k-th variable that succeeded
BoundOk(k) == {n \in 1..Len(binds) : binds[n].var = k /\ binds[n].err = Nil}

----------------------------------------------------------------------------
(* C1: once discovery is over and no bind has failed, the call returns      *)
(* NotSetError exactly when a required variable is absent from the source,  *)
(* and Names lists the names of those variables, one per field, in          *)
(* discovery order; it returns nil otherwise.                               *)
C1_NotSetExactly ==
    (pc = "done" /\ Discovered /\ NoBindFailed) =>
        /\ (err.kind = "NotSetError") <=> (MissingRequired # <<>>)
        /\ MissingRequired # <<>> => err = NotSetError(Names(MissingRequired))
        /\ MissingRequired = <<>> => err = Nil

C1_Witness ==
    /\ pc = "done"
    /\ err.kind = "NotSetError"
    /\ Len(err.Names) >= 2
    /\ \E k \in 1..Len(vars) : ~vars[k].required /\ ~Found(vars[k].name)

(* C2: the field of a variable whose name is absent from the source holds   *)
(* the value it held before the call, at every step and whatever the call   *)
(* returns; with no required variable absent and no bind failed the call    *)
(* returns nil.                                                             *)
C2_AbsentKeepsValue ==
    /\ \A k \in 1..Len(vars) :
        ~Found(vars[k].name) => fieldVal[vars[k].field] = Before[vars[k].field]
    /\ (pc = "done" /\ Discovered /\ NoBindFailed /\ MissingRequired = <<>>)
        => err = Nil

C2_Witness ==
    /\ pc = "done"
    /\ err = Nil
    /\ \E k \in 1..Len(vars) : ~vars[k].required /\ ~Found(vars[k].name)
    /\ \E k \in 1..Len(vars) : fieldVal[vars[k].field] # Before[vars[k].field]

(* C3: MultiProvider's LookupEnv reports found exactly when one of its      *)
(* providers does, returns the value of the last provider in the list that  *)
(* reports found, and calls every provider of the list, in order.           *)
C3_LastFoundWins ==
    mpAsked # <<>> =>
        LET hits == {i \in 1..Len(mpList) : LookupEnv(mpList[i], mpAsked).ok}
        IN  /\ mpResult.ok <=> hits # {}
            /\ hits # {} =>
                mpResult.value = LookupEnv(mpList[Greatest(hits)], mpAsked).value
            /\ mpResult.asked = [i \in 1..Len(mpList) |-> i]

C3_Witness ==
    /\ mpAsked # <<>>
    /\ Len(mpList) = 3
    /\ LookupEnv(mpList[1], mpAsked).ok
    /\ LookupEnv(mpList[2], mpAsked).ok
    /\ ~LookupEnv(mpList[3], mpAsked).ok
    /\ LookupEnv(mpList[1], mpAsked).value # LookupEnv(mpList[2], mpAsked).value
    /\ mpResult.value = LookupEnv(mpList[2], mpAsked).value

\* a token sequence with every placeholder replaced by the source's value of
\* its name, by nothing when the source has none
Subst(ts) ==
    Concat([k \in 1..Len(ts) |->
              IF ts[k].tok = "lit" THEN ts[k].text
              ELSE IF Found(ts[k].text) THEN ValueOf(ts[k].text) ELSE <<>>])

(* C4: the text bound to a variable with the expand option is the value     *)
(* found for it with every $NAME and ${NAME} replaced by the source's value *)
(* of NAME, by the empty string when the source has none; without the       *)
(* option the value found is bound as it is.                                *)
C4_ExpandedValueBound ==
    \A n \in 1..Len(binds) :
        LET v == vars[binds[n].var]
            raw == ValueOf(v.name)
        IN  IF v.expand
            THEN \A ts \in Templates :
                    RenderAll(ts) = raw => binds[n].text = Subst(ts)
            ELSE binds[n].text = raw

C4_Witness ==
    /\ pc = "done"
    /\ err = Nil
    /\ Len(binds) = 2
    /\ ~vars[1].expand
    /\ binds[1].text = <<"$", "A">>
    /\ vars[2].expand
    /\ binds[2].found = RenderAll(<<Brace(kC), Dollar(kB)>>)
    /\ binds[2].text = <<"$", "A">>

\* the key of the k-th variable: the configured prefix, then its tag's name
OwnKey(k) == PrefixGiven \o TagName(FieldAt(dst.fields, vars[k].field).tag)
\* the keys of the required variables the source does not have, in order
MissingKeys ==
    LET ks == SelectSeq([k \in 1..Len(vars) |-> k],
                        LAMBDA k : vars[k].required /\ ~Found(OwnKey(k)))
    IN  [n \in 1..Len(ks) |-> OwnKey(ks[n])]

(* C5: the key looked up for a field is the prefix given by WithPrefix      *)
(* followed by the tag's name; the field is bound only when that key is in  *)
(* the source, and from its value; NotSetError names that key.              *)
C5_PrefixedKey ==
    /\ \A k \in 1..Len(vars) : vars[k].name = OwnKey(k)
    /\ \A n \in 1..Len(lookups) :
        lookups[n].by = "lookupEnv" => lookups[n].key = OwnKey(lookups[n].var)
    /\ \A n \in 1..Len(binds) :
        /\ Found(OwnKey(binds[n].var))
        /\ binds[n].found = ValueOf(OwnKey(binds[n].var))
    /\ err.kind = "NotSetError" => err.Names = MissingKeys

C5_Witness ==
    /\ pc = "done"
    /\ PrefixGiven # <<>>
    /\ err.kind = "NotSetError"
    /\ \E k \in 1..Len(vars) :
        /\ ~Found(OwnKey(k))
        /\ Found(TagName(FieldAt(dst.fields, vars[k].field).tag))
        /\ fieldVal[vars[k].field] = Before[vars[k].field]
    /\ \E n \in 1..Len(binds) :
        LET name == TagName(FieldAt(dst.fields, binds[n].field).tag)
        IN  Found(name) /\ ValueOf(name) # binds[n].found

(* C6: when a tag that discovery reads is faulty (no name, or an option     *)
(* that is neither required nor expand), the call returns the error of the  *)
(* first such tag in discovery order, and has changed no field and looked   *)
(* up no key.                                                               *)
C6_DiscoveryFailureIsClean ==
    (structPtr(dst) /\ Faulty # {} /\ pc # "start") =>
        /\ pc = "done"
        /\ err = TagError(FieldAt(dst.fields, InOrder(Faulty)[1]).tag)
        /\ fieldVal = Before
        /\ lookups = <<>>
        /\ binds = <<>>

C6_Witness ==
    /\ pc = "done"
    /\ Faulty # {}
    /\ Len(InOrder(Faulty)[1]) >= 3
    /\ \E p \in Leaves \ Faulty :
        /\ PathBefore(p, InOrder(Faulty)[1])
        /\ Found(TagName(FieldAt(dst.fields, p).tag))
        /\ fieldVal[p] = Before[p]

(* C7: when the bind of the k-th variable fails the call returns that error *)
(* at once, also when required variables were missing before; no variable   *)
(* after the k-th is looked up, and the only fields changed are those of    *)
(* variables before the k-th whose bind succeeded.                          *)
C7_BindFailureStops ==
    \A n \in 1..Len(binds) :
        binds[n].err # Nil =>
            /\ pc = "done"
            /\ err = binds[n].err
            /\ n = Len(binds)
            /\ \A m \in 1..Len(lookups) : lookups[m].var <= binds[n].var
            /\ \A p \in DOMAIN fieldVal :
                fieldVal[p] # Before[p] =>
                    \E m \in 1..(n - 1) :
                        /\ binds[m].field = p
                        /\ binds[m].err = Nil
                        /\ binds[m].var < binds[n].var

C7_Witness ==
    /\ pc = "done"
    /\ notset # <<>>
    /\ \E n \in 1..Len(binds) :
        /\ binds[n].err # Nil
        /\ binds[n].var < Len(vars)
        /\ Found(vars[binds[n].var + 1].name)
        /\ \E m \in 1..(n - 1) : fieldVal[binds[m].field] # Before[binds[m].field]

(* C8: when the call returns NotSetError the loop has gone through every    *)
(* variable: each was looked up, and each one found in the source was       *)
(* bound, those after a missing required variable too.                      *)
C8_MissingDoesNotStop ==
    (pc = "done" /\ err.kind = "NotSetError") =>
        /\ idx = Len(vars) + 1
        /\ \A k \in 1..Len(vars) :
            /\ \E n \in 1..Len(lookups) :
                lookups[n].var = k /\ lookups[n].by = "lookupEnv"
            /\ Found(vars[k].name) => BoundOk(k) # {}

C8_Witness ==
    /\ pc = "done"
    /\ err.kind = "NotSetError"
    /\ \E j, k \in 1..Len(vars) :
        /\ j < k
        /\ vars[j].required
        /\ ~Found(vars[j].name)
        /\ BoundOk(k) # {}
        /\ fieldVal[vars[k].field] # Before[vars[k].field]

(* C9: discovery yields the settable tagged leaf fields of the destination  *)
(* in depth-first declaration order; unexported fields, untagged fields and *)
(* the tags of the structs it walks into yield no variable and no error.    *)
C9_DiscoveryOrder ==
    (structPtr(dst) /\ Faulty = {} /\ pc # "start") =>
        /\ [k \in 1..Len(vars) |-> vars[k].field] = InOrder(Leaves)
        /\ err.kind \notin {"ErrEmptyTagName", "ErrInvalidTagOption"}

C9_Witness ==
    /\ pc = "loop"
    /\ Faulty = {}
    /\ \E k \in 1..(Len(vars) - 2) :
        /\ Len(vars[k].field) = 3
        /\ Len(vars[k + 1].field) = 2
        /\ FieldAt(dst.fields, vars[k + 1].field).kind = "struct"
        /\ Len(vars[k + 2].field) = 1
    /\ \E p \in DOMAIN fieldVal :
        /\ ~FieldAt(dst.fields, p).exported
        /\ TagFaulty(FieldAt(dst.fields, p).tag)

Dollars(s) == Cardinality({k \in 1..Len(s) : s[k] = "$"})
\* the keys os.Expand asked the source for while expanding the k-th variable
MappingKeys(k) ==
    LET asked == SelectSeq(lookups, LAMBDA a : a.var = k /\ a.by = "mapping")
    IN  [n \in 1..Len(asked) |-> asked[n].key]
\* the names of the placeholders of a token sequence
Placeholders(ts) ==
    LET held == SelectSeq(ts, LAMBDA t : t.tok # "lit")
    IN  [n \in 1..Len(held) |-> held[n].text]

C10_OnePass ==
    /\ \A k \in 1..Len(vars) :
        /\ Len(MappingKeys(k)) <= Dollars(ValueOf(vars[k].name))
        /\ ~vars[k].expand => MappingKeys(k) = <<>>
    /\ \A n \in 1..Len(binds) :
        vars[binds[n].var].expand =>
            \A ts \in Templates :
                RenderAll(ts) = binds[n].found =>
                    /\ MappingKeys(binds[n].var) = Placeholders(ts)
                    /\ binds[n].text = Subst(ts)

\* where the call stands: before, in or after the loop over the variables,
\* the variable it is at, and how far os.Expand has gone over its value
Position ==
    <<IF pc = "start" THEN 0 ELSE IF pc = "done" THEN 2 ELSE 1,
      idx,
      IF pc = "expand" THEN 1 ELSE 0,
      IF pc = "expand" THEN ex.j ELSE 0>>
LexLess(a, b) ==
    \E k \in 1..4 : a[k] < b[k] /\ \A h \in 1..(k - 1) : a[h] = b[h]
\* os.Expand stays within the value found, which it does not change
ExpandWithin ==
    /\ ex.j <= Len(ex.s)
    /\ idx <= Len(vars) + 1
    /\ pc = "expand" => ex.s = ValueOf(vars[idx].name)
\* every step takes the call further
Advances == LexLess(Position, Position')

(* C10: expansion goes once over the value found: each placeholder name is  *)
(* looked up as it stands, without the prefix, at most once per occurrence, *)
(* what is put in its place is not expanded again, and every step takes     *)
(* os.Expand further over the value found, so that it ends, also when       *)
(* values of the source refer to themselves or to each other.               *)
C10_SinglePassExpansion ==
    /\ [](C10_OnePass /\ ExpandWithin)
    /\ [][Advances]_allvars

C10_Witness ==
    /\ pc = "done"
    /\ PrefixGiven = kP
    /\ \E n \in 1..Len(binds) :
        /\ vars[binds[n].var].expand
        /\ binds[n].found = RenderAll(<<Dollar(kA), Dollar(kB)>>)
        /\ binds[n].text = ValueOf(kA) \o <<"$", "A">>
        /\ MappingKeys(binds[n].var) = <<kA, kB>>
        /\ ValueOf(kP \o kB) # ValueOf(kB)

====
